---- MODULE Spec2Model ----
(***************************************************************************)
(* Model of databricks_cli/pipelines/api.py: PipelinesApi.deploy / delete, *)
(* the local/external library classification, the content-addressed        *)
(* upload to DBFS and the credentials payload placed in the request body.  *)
(*                                                                         *)
(* Strings are sequences of tokens (<<"file", ":", "/", "a", ".", "jar">>  *)
(* is "file:/a.jar"), so that urlparse and os.path.splitext are computed   *)
(* on the text and not looked up.  Request headers are passed through by   *)
(* the code untouched and are left out.                                    *)
(***************************************************************************)
EXTENDS Naturals, Sequences, FiniteSets, TLC

\* ------------------------------------------------------------------ bounds
MaxLibs == 2
MaxCalls == 2

Procs == {"A", "B"}

\* Python's None where a profile name is expected (not a profile called "None")
None == "None"

\* ------------------------------------------------------- module constants
base_pipelines_dir == <<"dbfs", ":", "/", "pipelines", "/", "code">>
supported_lib_types_with_egg == {"jar", "whl", "egg"}
supported_lib_types == {"jar", "whl"}

\* -------------------------------------------------------- string helpers
Drop(s, n) == IF n >= Len(s) THEN <<>> ELSE SubSeq(s, n + 1, Len(s))
Take(s, n) == IF n >= Len(s) THEN s ELSE SubSeq(s, 1, n)

\* str.find: least index holding a token of the set, 0 when there is none
FindFirst(s, toks) ==
    IF \E i \in 1..Len(s) : s[i] \in toks
    THEN CHOOSE i \in 1..Len(s) : s[i] \in toks /\ \A j \in 1..(i - 1) : s[j] \notin toks
    ELSE 0

\* str.rfind: greatest index holding the token, 0 when there is none
FindLast(s, tok) ==
    IF \E i \in 1..Len(s) : s[i] = tok
    THEN CHOOSE i \in 1..Len(s) : s[i] = tok /\ \A j \in (i + 1)..Len(s) : s[j] # tok
    ELSE 0

StartsWith(s, prefix) == Len(s) >= Len(prefix) /\ SubSeq(s, 1, Len(prefix)) = prefix

\* tokens made of letters only, and tokens urlsplit accepts inside a scheme
AlphaTokens == {"file", "FILE", "https", "dbfs", "host", "repo", "a", "b", "x", "jar", "whl"}
SchemeTokens == AlphaTokens \cup {"."}

LowerToken(t) == IF t = "FILE" THEN "file" ELSE t
Lower_case_sensitive(s) == s

Lower(s) == [i \in 1..Len(s) |-> LowerToken(s[i])]

\* urllib.parse.urlparse over the alphabet above (no '?', '#', ';')
urlparse(url) ==
    LET i == FindFirst(url, {":"})
        hasScheme == /\ i > 1
                     /\ url[1] \in AlphaTokens
                     /\ \A j \in 1..(i - 1) : url[j] \in SchemeTokens
        scheme == IF hasScheme THEN Lower(Take(url, i - 1)) ELSE <<>>
        rest == IF hasScheme THEN Drop(url, i) ELSE url
        hasNetloc == StartsWith(rest, <<"/", "/">>)
        afterSlashes == Drop(rest, 2)
        delim == FindFirst(afterSlashes, {"/"})
        netloc == IF ~hasNetloc THEN <<>>
                  ELSE IF delim = 0 THEN afterSlashes ELSE Take(afterSlashes, delim - 1)
        path == IF ~hasNetloc THEN rest
                ELSE IF delim = 0 THEN <<>> ELSE Drop(afterSlashes, delim - 1)
    IN [scheme |-> scheme, netloc |-> netloc, path |-> path]

\* os.path.splitext(p)[1]: the extension with its leading dot, <<>> if none
splitext_ext(p) ==
    LET sepIndex == FindLast(p, "/")
        dotIndex == FindLast(p, ".")
    IN IF dotIndex > sepIndex /\ \E k \in (sepIndex + 1)..(dotIndex - 1) : p[k] # "."
       THEN Drop(p, dotIndex - 1)
       ELSE <<>>

\* hashlib.sha1(content).hexdigest(), collision free on the contents used
hexdigest(content) ==
    CASE content = "bytes1" -> "abc123"
      [] content = "bytes2" -> "def456"
      [] OTHER -> "da39a3"

\* ------------------------------------------------------- LibraryObject
LibraryObject(lib_type, lib_path) == [lib_type |-> lib_type, path |-> lib_path]

RECURSIVE FlattenItems(_)
FlattenItems(libraries) ==
    IF libraries = <<>> THEN <<>>
    ELSE Head(libraries) \o FlattenItems(Tail(libraries))

from_json_first_item(libraries) ==
    [i \in 1..Len(libraries) |-> LibraryObject(libraries[i][1].key, libraries[i][1].value)]

\* LibraryObject.from_json: one object per (key, value) item of every mapping
from_json(libraries) ==
    LET items == FlattenItems(libraries)
    IN [i \in 1..Len(items) |-> LibraryObject(items[i].key, items[i].value)]

\* LibraryObject.to_json: one single-key mapping per object
to_json(lib_objects) ==
    [i \in 1..Len(lib_objects) |->
        << [key |-> lib_objects[i].lib_type, value |-> lib_objects[i].path] >>]

\* ------------------------------------------------------------ dict helpers
\* d[k] = v on a mapping: adds the key or overwrites it
DictSet(d, k, v) == [x \in (DOMAIN d) \cup {k} |-> IF x = k THEN v ELSE d[x]]
\* d.get(k, default)
DictGet(d, k, default) == IF k \in DOMAIN d THEN d[k] ELSE default

\* ------------------------------------------- PipelinesApi, pure functions
\* _identify_local_libraries: the loop from position i on, with the two
\* lists built so far; raised is set by the RuntimeError of the file branch
is_invalid_file_uri_netloc_only(parsed_uri) == parsed_uri.netloc # <<>>

\* line 81: the file URI forms that are rejected
is_invalid_file_uri(parsed_uri) ==
    StartsWith(parsed_uri.path, <<"/", "/">>) \/ parsed_uri.netloc # <<>>

RECURSIVE identify_loop(_, _, _, _)
identify_loop(lib_objects, i, local_lib_objects, external_lib_objects) ==
    IF i > Len(lib_objects)
    THEN [raised |-> FALSE, local |-> local_lib_objects, external |-> external_lib_objects]
    ELSE LET lib_object == lib_objects[i]
             parsed_uri == urlparse(lib_object.path)
         IN IF lib_object.lib_type \in supported_lib_types /\ parsed_uri.scheme = <<>>
            THEN identify_loop(lib_objects, i + 1,
                               Append(local_lib_objects, lib_object), external_lib_objects)
            ELSE IF lib_object.lib_type \in supported_lib_types
                    /\ Lower(parsed_uri.scheme) = <<"file">>
            THEN IF is_invalid_file_uri(parsed_uri)
                 THEN [raised |-> TRUE, local |-> <<>>, external |-> <<>>]
                 ELSE identify_loop(lib_objects, i + 1,
                                    Append(local_lib_objects,
                                           LibraryObject(lib_object.lib_type, parsed_uri.path)),
                                    external_lib_objects)
            ELSE identify_loop(lib_objects, i + 1,
                               local_lib_objects, Append(external_lib_objects, lib_object))

_identify_local_libraries(lib_objects) == identify_loop(lib_objects, 1, <<>>, <<>>)

hashed_path_by_name(content, path) == base_pipelines_dir \o path

\* _get_hashed_path once the file has been read: base dir / digest + extension
hashed_path(content, path) ==
    base_pipelines_dir \o <<"/">> \o <<hexdigest(content)>> \o splitext_ext(path)

\* DbfsPath(path): the wrapper handed to the DBFS client
DbfsPath(path) == [absolute_path |-> path]

\* InvalidConfigurationError.for_profile: the profile the message names
for_profile(profile) == IF profile = None THEN "default" ELSE profile

NoneConfig == [is_none |-> TRUE]

_get_credentials_always_password(profile, config) ==
    LET provider == IF profile # None THEN "ProfileConfigProvider.get_config"
                    ELSE "get_config"
    IN IF config = NoneConfig \/ ~config.is_valid
       THEN [raised |-> TRUE, provider |-> provider, names |-> for_profile(profile)]
       ELSE [raised |-> FALSE, provider |-> provider,
             value |-> [user |-> config.username, password |-> config.password]]

_get_credentials_unvalidated(profile, config) ==
    LET provider == IF profile # None THEN "ProfileConfigProvider.get_config"
                    ELSE "get_config"
    IN IF config = NoneConfig
       THEN [raised |-> TRUE, provider |-> provider, names |-> for_profile(profile)]
       ELSE IF config.is_valid_with_token
       THEN [raised |-> FALSE, provider |-> provider,
             value |-> [token |-> config.token]]
       ELSE [raised |-> FALSE, provider |-> provider,
             value |-> [user |-> config.username, password |-> config.password]]

\* _get_credentials_for_request, given what the configuration provider
\* answers: profile from get_profile_from_context, config from the provider
\* the code then asks (recorded in provider)
_get_credentials_for_request(profile, config) ==
    LET provider == IF profile # None THEN "ProfileConfigProvider.get_config"
                    ELSE "get_config"
    IN IF config = NoneConfig \/ ~config.is_valid
       THEN [raised |-> TRUE, provider |-> provider, names |-> for_profile(profile)]
       ELSE IF config.is_valid_with_token
       THEN [raised |-> FALSE, provider |-> provider,
             value |-> [token |-> config.token]]
       ELSE [raised |-> FALSE, provider |-> provider,
             value |-> [user |-> config.username, password |-> config.password]]

\* ------------------------------------------------------------------ inputs
LocalA == <<"/", "a", ".", "jar">>
LocalB == <<"/", "b", ".", "jar">>
LocalW == <<"/", "a", ".", "whl">>

Item(k, v) == [key |-> k, value |-> v]

\* the mappings a libraries list is drawn from
LibPool ==
    { << Item("jar", LocalA) >>,
      << Item("jar", <<"file", ":", "/", "b", ".", "jar">>) >>,
      << Item("whl", <<"FILE", ":", "/", "/", "/", "a", ".", "whl">>) >>,
      << Item("jar", <<"file", ":", "/", "/", "host", "/", "a", ".", "jar">>) >>,
      << Item("jar", <<"file", ":", "/", "/", "/", "/", "a", ".", "jar">>) >>,
      << Item("whl", <<"https", ":", "/", "/", "repo", "/", "x", ".", "whl">>) >>,
      << Item("egg", <<"file", ":", "/", "/", "host", "/", "a", ".", "jar">>),
         Item("pypi", LocalA) >> }

LibLists == UNION { [1..n -> LibPool] : n \in 0..MaxLibs }

StaleCredentials == [token |-> "stale", user |-> "old"]

\* a specification without its libraries key, and the variants of it: one
\* that already carries credentials, one without an id
BaseSpec == ("id" :> "p1") @@ ("name" :> "n")
SpecVariants ==
    { ("id" :> "p1") @@ ("name" :> "n") @@ ("credentials" :> StaleCredentials),
      ("name" :> "n") }
VariantLibLists ==
    { <<>>,
      << << Item("jar", LocalA) >> >>,
      << << Item("whl", <<"https", ":", "/", "/", "repo", "/", "x", ".", "whl">>) >>,
         << Item("jar", <<"file", ":", "/", "b", ".", "jar">>) >> >> }

SpecInputs ==
    { DictSet(BaseSpec, "libraries", libs) : libs \in LibLists }
      \cup { DictSet(shape, "libraries", libs) : shape \in SpecVariants, libs \in VariantLibLists }
      \cup { BaseSpec }

\* the local file system: content of each file, "missing" when unreadable
FsConfigs ==
    { (LocalA :> "bytes1") @@ (LocalB :> "bytes1") @@ (LocalW :> "bytes1"),
      (LocalA :> "bytes1") @@ (LocalB :> "bytes2") @@ (LocalW :> "bytes1"),
      (LocalA :> "bytes1") @@ (LocalB :> "missing") @@ (LocalW :> "bytes1") }

\* what the configuration provider can answer
Profiles == {None, "staging"}
Configs ==
    { NoneConfig,
      [is_valid |-> FALSE, is_valid_with_token |-> FALSE,
       token |-> None, username |-> None, password |-> None],
      [is_valid |-> TRUE, is_valid_with_token |-> TRUE,
       token |-> "T", username |-> None, password |-> None],
      [is_valid |-> TRUE, is_valid_with_token |-> FALSE,
       token |-> None, username |-> "U", password |-> "P"] }

\* ------------------------------------------------------------------- state
VARIABLES
    fs,       \* local files: path -> content
    dbfs,     \* the object store: set of <<remote path, content>>
    uploaded, \* the put_file calls that succeeded so far: [local, remote]
    ncalls,   \* deploy / delete calls started so far
    inst      \* per PipelinesApi instance: the call in progress

vars == <<fs, dbfs, uploaded, ncalls, inst>>

Idle ==
    [pc |-> "idle", op |-> "none", spec |-> <<>>, spec_in |-> <<>>,
     pipeline_id |-> "", local_lib_objects |-> <<>>, external_lib_objects |-> <<>>,
     remote_lib_objects |-> <<>>, upload_files |-> <<>>, idx |-> 0,
     profile |-> None, config |-> NoneConfig, credentials |-> NoneConfig,
     calls |-> <<>>, result |-> "none", names |-> ""]

\* one entry of the per-call log of collaborator calls
Call(op, path, ok) == [op |-> op, path |-> path, ok |-> ok]

Init ==
    /\ fs \in FsConfigs
    /\ dbfs = {}
    /\ uploaded = {}
    /\ ncalls = 0
    /\ inst = [p \in Procs |-> Idle]

\* DbfsApi.file_exists
file_exists(store, dbfs_path) == \E e \in store : e[1] = dbfs_path.absolute_path

needs_upload_unfiltered(store, dbfs_path) == TRUE

\* line 97: the filter of the upload_files comprehension
needs_upload(store, dbfs_path) == ~file_exists(store, dbfs_path)

\* DbfsApi.put_file(src, dbfs_path, overwrite = False) when it succeeds: an
\* existing file is left as it is
put_file(store, files, src, dbfs_path) ==
    IF file_exists(store, dbfs_path) THEN store
    ELSE store \cup { <<dbfs_path.absolute_path, files[src]>> }

deploy_libraries_local_first(external_lib_objects, remote_lib_objects) ==
    to_json(remote_lib_objects \o external_lib_objects)

\* deploy, lines 54-55: the libraries written back into the spec
deploy_libraries(external_lib_objects, remote_lib_objects) ==
    to_json(external_lib_objects \o remote_lib_objects)

AssignLibraries_fresh_body(st) ==
    [st EXCEPT !.spec = [k \in ((DOMAIN st.spec) \cap {"id", "credentials"}) \cup {"libraries"} |->
                            IF k = "libraries"
                            THEN deploy_libraries(st.external_lib_objects, st.remote_lib_objects)
                            ELSE st.spec[k]],
               !.pc = "creds", !.idx = 0]

AssignLibraries_deferred(st) == [st EXCEPT !.pc = "creds", !.idx = 0]

\* deploy, line 54: the upload stage returned, spec['libraries'] is assigned
\* and the call moves on to the credentials
AssignLibraries(st) ==
    [st EXCEPT !.spec = DictSet(st.spec, "libraries",
                                deploy_libraries(st.external_lib_objects, st.remote_lib_objects)),
               !.pc = "creds", !.idx = 0]

Raise(st, error) == [st EXCEPT !.pc = "done", !.result = error]

\* calls are serialised: a call starts when no instance is inside one.  An
\* idle instance holds nothing of its earlier calls, so which instance makes
\* a serialised call changes nothing, and one instance makes them all
SerialCaller == "A"
CanStart(p) ==
    /\ p = SerialCaller
    /\ ncalls < MaxCalls
    /\ \A q \in Procs : inst[q].pc = "idle"

\* deploy, lines 50-52: decode and classify
StartDeploy(p, spec) ==
    /\ ncalls' = ncalls + 1
    /\ LET lib_objects == from_json(DictGet(spec, "libraries", <<>>))
           parts == _identify_local_libraries(lib_objects)
           st == [Idle EXCEPT !.op = "deploy", !.spec = spec, !.spec_in = spec]
       IN inst' = [inst EXCEPT ![p] =
            IF parts.raised THEN Raise(st, "RuntimeError")
            ELSE LET st2 == [st EXCEPT !.local_lib_objects = parts.local,
                                       !.external_lib_objects = parts.external]
                 IN IF parts.local = <<>> THEN AssignLibraries(st2)
                    ELSE [st2 EXCEPT !.pc = "hash", !.idx = 1]]
    /\ UNCHANGED <<fs, dbfs, uploaded>>

\* a deploy call made while no other call is running
Deploy(p, spec) ==
    /\ CanStart(p)
    /\ StartDeploy(p, spec)

Hash_unreadable_as_empty(p) ==
    /\ inst[p].pc = "hash"
    /\ LET st == inst[p]
           llo == st.local_lib_objects[st.idx]
           readable == llo.path \in DOMAIN fs /\ fs[llo.path] # "missing"
           content == IF readable THEN fs[llo.path] ELSE ""
           rlo == LibraryObject(llo.lib_type, hashed_path(content, llo.path))
           st2 == [st EXCEPT !.calls = Append(@, Call("hash", llo.path, readable)),
                             !.remote_lib_objects = Append(@, rlo)]
       IN inst' = [inst EXCEPT ![p] =
            IF st.idx = Len(st.local_lib_objects)
            THEN [st2 EXCEPT !.pc = "exists", !.idx = 1]
            ELSE [st2 EXCEPT !.idx = st.idx + 1]]
    /\ UNCHANGED <<fs, dbfs, uploaded, ncalls>>

\* _upload_local_libraries, lines 90-91: _get_hashed_path of the next file
Hash(p) ==
    /\ inst[p].pc = "hash"
    /\ LET st == inst[p]
           llo == st.local_lib_objects[st.idx]
           readable == llo.path \in DOMAIN fs /\ fs[llo.path] # "missing"
           logged == [st EXCEPT !.calls = Append(@, Call("hash", llo.path, readable))]
       IN inst' = [inst EXCEPT ![p] =
            IF ~readable THEN Raise(logged, "IOError")
            ELSE LET rlo == LibraryObject(llo.lib_type, hashed_path(fs[llo.path], llo.path))
                     st2 == [logged EXCEPT !.remote_lib_objects = Append(@, rlo)]
                 IN IF st.idx = Len(st.local_lib_objects)
                    THEN [st2 EXCEPT !.pc = "exists", !.idx = 1]
                    ELSE [st2 EXCEPT !.idx = st.idx + 1]]
    /\ UNCHANGED <<fs, dbfs, uploaded, ncalls>>

\* _upload_local_libraries, lines 93-97: file_exists for the next pair
Exists(p) ==
    /\ inst[p].pc = "exists"
    /\ LET st == inst[p]
           llo == st.local_lib_objects[st.idx]
           rlo == LibraryObject(st.remote_lib_objects[st.idx].lib_type,
                                DbfsPath(st.remote_lib_objects[st.idx].path))
           found == file_exists(dbfs, rlo.path)
           st2 == [st EXCEPT !.calls = Append(@, Call("exists", rlo.path.absolute_path, found)),
                             !.upload_files = IF needs_upload(dbfs, rlo.path)
                                              THEN Append(@, <<llo, rlo>>) ELSE @]
       IN inst' = [inst EXCEPT ![p] =
            IF st.idx < Len(st.local_lib_objects) THEN [st2 EXCEPT !.idx = st.idx + 1]
            ELSE IF st2.upload_files = <<>> THEN AssignLibraries(st2)
            ELSE [st2 EXCEPT !.pc = "put", !.idx = 1]]
    /\ UNCHANGED <<fs, dbfs, uploaded, ncalls>>

put_next_swallowing(st, ok) ==
    IF st.idx < Len(st.upload_files) THEN [st EXCEPT !.idx = st.idx + 1]
    ELSE AssignLibraries(st)

\* lines 99-100: the loop after put_file returned (ok) or raised: an error
\* leaves the loop and the call, otherwise the next pair is uploaded
put_next(st, ok) ==
    IF ~ok THEN Raise(st, "UploadError")
    ELSE IF st.idx < Len(st.upload_files) THEN [st EXCEPT !.idx = st.idx + 1]
    ELSE AssignLibraries(st)

\* _upload_local_libraries, lines 99-100: put_file for the next pair to upload
Put(p, ok) ==
    /\ inst[p].pc = "put"
    /\ LET st == inst[p]
           llo == st.upload_files[st.idx][1]
           rlo == st.upload_files[st.idx][2]
           logged == [st EXCEPT !.calls = Append(@,
                        [op |-> "put", path |-> rlo.path.absolute_path, ok |-> ok,
                         local |-> llo.path])]
       IN /\ uploaded' = IF ok THEN uploaded \cup {[local |-> llo.path,
                                                     remote |-> rlo.path.absolute_path]}
                          ELSE uploaded
          /\ dbfs' = IF ok THEN put_file(dbfs, fs, llo.path, rlo.path) ELSE dbfs
          /\ inst' = [inst EXCEPT ![p] = put_next(logged, ok)]
    /\ UNCHANGED <<fs, ncalls>>

\* the log entries of one _get_credentials_for_request call
CredentialCalls(creds) ==
    << Call("get_profile_from_context", <<>>, TRUE), Call(creds.provider, <<>>, TRUE) >>

\* deploy, line 56
Credentials(p, profile, config) ==
    /\ inst[p].pc = "creds"
    /\ LET st == inst[p]
           creds == _get_credentials_for_request(profile, config)
           logged == [st EXCEPT !.calls = @ \o CredentialCalls(creds),
                                !.profile = profile, !.config = config]
       IN inst' = [inst EXCEPT ![p] =
            IF creds.raised
            THEN [Raise(logged, "InvalidConfigurationError") EXCEPT !.names = creds.names]
            ELSE [logged EXCEPT !.spec = DictSet(st.spec, "credentials", creds.value),
                                !.credentials = creds.value, !.pc = "send"]]
    /\ UNCHANGED <<fs, dbfs, uploaded, ncalls>>

Send_without_id(p, ok) ==
    /\ inst[p].pc = "send"
    /\ LET st == inst[p]
           logged == [st EXCEPT !.calls = Append(@,
                        [op |-> "perform_query",
                         path |-> <<"/", "pipelines", "/", DictGet(st.spec, "id", None)>>,
                         ok |-> ok, method |-> "PUT", data |-> st.spec])]
       IN inst' = [inst EXCEPT ![p] =
            IF ok THEN [logged EXCEPT !.pc = "done", !.result = "ok"]
            ELSE Raise(logged, "RequestError")]
    /\ UNCHANGED <<fs, dbfs, uploaded, ncalls>>

Send_retrying(p, ok) ==
    /\ inst[p].pc = "send"
    /\ LET st == inst[p]
           request(success) == [op |-> "perform_query", path |-> <<"/", "pipelines", "/", st.spec["id"]>>,
                                ok |-> success, method |-> "PUT", data |-> st.spec]
       IN inst' = [inst EXCEPT ![p] =
            IF "id" \notin DOMAIN st.spec THEN Raise(st, "KeyError")
            ELSE IF ok THEN [st EXCEPT !.calls = Append(@, request(TRUE)),
                                       !.pc = "done", !.result = "ok"]
            ELSE [st EXCEPT !.calls = @ \o <<request(FALSE), request(TRUE)>>,
                            !.pc = "done", !.result = "ok"]]
    /\ UNCHANGED <<fs, dbfs, uploaded, ncalls>>

\* deploy, lines 57-60: PUT /pipelines/{id} with the spec as body
Send(p, ok) ==
    /\ inst[p].pc = "send"
    /\ LET st == inst[p]
       IN inst' = [inst EXCEPT ![p] =
            IF "id" \notin DOMAIN st.spec THEN Raise(st, "KeyError")
            ELSE LET logged == [st EXCEPT !.calls = Append(@,
                                   [op |-> "perform_query", path |-> <<"/", "pipelines", "/", st.spec["id"]>>,
                                    ok |-> ok, method |-> "PUT", data |-> st.spec])]
                 IN IF ok THEN [logged EXCEPT !.pc = "done", !.result = "ok"]
                    ELSE Raise(logged, "RequestError")]
    /\ UNCHANGED <<fs, dbfs, uploaded, ncalls>>

\* delete, line 63: the credentials are resolved as an argument of the call
Delete(p, pipeline_id, profile, config) ==
    /\ CanStart(p)
    /\ ncalls' = ncalls + 1
    /\ LET creds == _get_credentials_for_request(profile, config)
           st == [Idle EXCEPT !.op = "delete", !.pipeline_id = pipeline_id,
                              !.calls = CredentialCalls(creds),
                              !.profile = profile, !.config = config]
       IN inst' = [inst EXCEPT ![p] =
            IF creds.raised
            THEN [Raise(st, "InvalidConfigurationError") EXCEPT !.names = creds.names]
            ELSE [st EXCEPT !.credentials = creds.value, !.pc = "dsend"]]
    /\ UNCHANGED <<fs, dbfs, uploaded>>

\* delete, line 63: DeltaPipelinesService.delete
SendDelete(p, ok) ==
    /\ inst[p].pc = "dsend"
    /\ LET st == inst[p]
           logged == [st EXCEPT !.calls = Append(@,
                        [op |-> "perform_query", path |-> <<"/", "pipelines", "/", st.pipeline_id>>,
                         ok |-> ok, method |-> "DELETE",
                         data |-> ("credentials" :> st.credentials)])]
       IN inst' = [inst EXCEPT ![p] =
            IF ok THEN [logged EXCEPT !.pc = "done", !.result = "ok"]
            ELSE Raise(logged, "RequestError")]
    /\ UNCHANGED <<fs, dbfs, uploaded, ncalls>>

\* the call returns (or its error reaches the caller); the instance keeps
\* nothing of it
Return(p) ==
    /\ inst[p].pc = "done"
    /\ inst' = [inst EXCEPT ![p] = Idle]
    /\ UNCHANGED <<fs, dbfs, uploaded, ncalls>>

Next ==
    \/ \E p \in Procs, spec \in SpecInputs : Deploy(p, spec)
    \/ \E p \in Procs : Hash(p)
    \/ \E p \in Procs : Exists(p)
    \/ \E p \in Procs, ok \in BOOLEAN : Put(p, ok)
    \/ \E p \in Procs, profile \in Profiles, config \in Configs : Credentials(p, profile, config)
    \/ \E p \in Procs, ok \in BOOLEAN : Send(p, ok)
    \/ \E p \in Procs, profile \in Profiles, config \in Configs : Delete(p, "p1", profile, config)
    \/ \E p \in Procs, ok \in BOOLEAN : SendDelete(p, ok)
    \/ \E p \in Procs : Return(p)

Spec == Init /\ [][Next]_vars

\* ------------------------------------------------- a deploy made twice
\* the caller deploys the specification it gave to a deploy that succeeded
\* once more (the original one, not the mapping that deploy rewrote); the
\* first call is kept as it ended, the repetition runs in the other instance
Redeploy(q) ==
    /\ inst[q].pc = "idle"
    /\ \E p \in Procs \ {q} :
          /\ inst[p].pc = "done" /\ inst[p].op = "deploy" /\ inst[p].result = "ok"
          /\ StartDeploy(q, inst[p].spec_in)

NextRepeat ==
    \/ \E p \in Procs, spec \in SpecInputs : Deploy(p, spec)
    \/ \E p \in Procs : Hash(p)
    \/ \E p \in Procs : Exists(p)
    \/ \E p \in Procs, ok \in BOOLEAN : Put(p, ok)
    \/ \E p \in Procs, profile \in Profiles, config \in Configs : Credentials(p, profile, config)
    \/ \E p \in Procs, ok \in BOOLEAN : Send(p, ok)
    \/ \E q \in Procs : Redeploy(q)

SpecRepeat == Init /\ [][NextRepeat]_vars

\* ------------------------------------- two instances deploying at once
\* two PipelinesApi instances (two processes) share the object store; each
\* makes one deploy of local files that all have the same content, their
\* steps interleave freely, and no collaborator reports an error
SameContent == (LocalA :> "bytes1") @@ (LocalB :> "bytes1") @@ (LocalW :> "bytes1")
SameContentPool ==
    { << Item("jar", LocalA) >>,
      << Item("jar", <<"file", ":", "/", "b", ".", "jar">>) >> }
ConcInputs ==
    { DictSet(BaseSpec, "libraries", libs) :
        libs \in UNION { [1..n -> SameContentPool] : n \in 1..MaxLibs } }
TokenConfig ==
    [is_valid |-> TRUE, is_valid_with_token |-> TRUE,
     token |-> "T", username |-> None, password |-> None]

InitConc ==
    /\ fs = SameContent
    /\ dbfs = {}
    /\ uploaded = {}
    /\ ncalls = 0
    /\ inst = [p \in Procs |-> Idle]

\* a deploy call made whatever the other instance is doing
DeployConc(p, spec) ==
    /\ inst[p].pc = "idle"
    /\ StartDeploy(p, spec)

NextConc ==
    \/ \E p \in Procs, spec \in ConcInputs : DeployConc(p, spec)
    \/ \E p \in Procs : Hash(p)
    \/ \E p \in Procs : Exists(p)
    \/ \E p \in Procs : Put(p, TRUE)
    \/ \E p \in Procs : Credentials(p, None, TokenConfig)
    \/ \E p \in Procs : Send(p, TRUE)

SpecConc == InitConc /\ [][NextConc]_vars

TypeOK ==
    /\ ncalls \in 0..MaxCalls
    /\ \A p \in Procs : inst[p].pc \in {"idle", "hash", "exists", "put", "creds", "send", "dsend", "done"}

\* ================================================================ claims
Log(p) == inst[p].calls
At(p, opname) == { i \in 1..Len(Log(p)) : Log(p)[i].op = opname }
InDeploy(p) == inst[p].op = "deploy"
InputLibraries(p) == DictGet(inst[p].spec_in, "libraries", <<>>)

\* the (type, path) pairs of a libraries list, mapping by mapping
RECURSIVE PairsFrom(_, _, _)
PairsFrom(L, i, j) ==
    IF i > Len(L) THEN <<>>
    ELSE IF j > Len(L[i]) THEN PairsFrom(L, i + 1, 1)
    ELSE << L[i][j] >> \o PairsFrom(L, i, j + 1)
Pairs(L) == PairsFrom(L, 1, 1)

\* the rule table of the classifier, read off the text of a pair: the type
\* is supported and the path has no scheme or the scheme file
Supported(pair) == pair.key \in {"jar", "whl"}
NoScheme(pair) == pair.value[1] = "/"
FileScheme(pair) == pair.value[1] \in {"file", "FILE"} /\ pair.value[2] = ":"
\* file://host/..., file:////...: an authority, or a path starting with //
Ambiguous(pair) ==
    /\ FileScheme(pair)
    /\ Len(pair.value) >= 5
    /\ pair.value[3] = "/" /\ pair.value[4] = "/"
    /\ (pair.value[5] # "/" \/ (Len(pair.value) >= 6 /\ pair.value[6] = "/"))
IsLocal(pair) == Supported(pair) /\ (NoScheme(pair) \/ FileScheme(pair))
IsExternal(pair) == ~IsLocal(pair)
\* the file a local pair names: /name.ext
LocalFile(pair) == Drop(pair.value, FindLast(pair.value, "/") - 1)
\* the content-addressed path of a local pair
RemoteOf(pair) ==
    <<"dbfs", ":", "/", "pipelines", "/", "code", "/">>
        \o << hexdigest(fs[LocalFile(pair)]) >> \o Drop(pair.value, Len(pair.value) - 2)

\* C1: across the deploy calls, put is invoked at most once for a
\* content-addressed remote path: no put is invoked for a path to which
\* another local file (of the same content) has been uploaded, be it by an
\* earlier call or by the same call.
C1_PutAtMostOncePerRemotePath ==
    \A p \in Procs : \A j \in At(p, "put") :
        \A e \in uploaded :
            e.remote = Log(p)[j].path => e.local = Log(p)[j].local

\* C2: within a call, every put follows an exists check of the same remote
\* path that answered false, there are no more puts of a path than such
\* answers, and a path reported as existing is never put.
C2_PutOnlyAfterExistsFalse ==
    \A p \in Procs :
        /\ \A j \in At(p, "put") :
              \E i \in At(p, "exists") :
                  i < j /\ Log(p)[i].path = Log(p)[j].path /\ ~Log(p)[i].ok
        /\ \A j \in At(p, "put") :
              Cardinality({ k \in At(p, "put") : Log(p)[k].path = Log(p)[j].path })
                <= Cardinality({ i \in At(p, "exists") :
                                   Log(p)[i].path = Log(p)[j].path /\ ~Log(p)[i].ok })
        /\ \A i \in At(p, "exists") :
              Log(p)[i].ok => \A j \in At(p, "put") : Log(p)[j].path # Log(p)[i].path

\* a call that skipped a library already in the store and uploaded another
C2_Witness ==
    \E p \in Procs :
        /\ \E i \in At(p, "exists") : Log(p)[i].ok
        /\ \E j \in At(p, "put") : Log(p)[j].ok

\* C3: the libraries list of the PUT sent by deploy has one single-key entry
\* per input pair: the external pairs in their input order, unchanged,
\* followed by the local pairs in their input order, each with its type and
\* its content-addressed remote path.
C3_LibrariesSentExternalThenRemote ==
    \A p \in Procs : \A i \in At(p, "perform_query") :
        InDeploy(p) =>
            LET sent == Log(p)[i].data["libraries"]
                pairs == Pairs(InputLibraries(p))
                ext == SelectSeq(pairs, IsExternal)
                loc == SelectSeq(pairs, IsLocal)
            IN /\ Len(sent) = Len(pairs)
               /\ sent = [k \in 1..Len(ext) |-> << ext[k] >>]
                           \o [k \in 1..Len(loc) |-> << Item(loc[k].key, RemoteOf(loc[k])) >>]

\* a successful deploy that uploaded a file, of a list with a local pair
\* ahead of an external one
C3_Witness ==
    \E p \in Procs :
        /\ InDeploy(p) /\ inst[p].pc = "done" /\ inst[p].result = "ok"
        /\ At(p, "put") # {}
        /\ LET pairs == Pairs(InputLibraries(p))
           IN \E i, j \in 1..Len(pairs) : i < j /\ IsLocal(pairs[i]) /\ IsExternal(pairs[j])

HasAmbiguous(p) ==
    \E i \in 1..Len(Pairs(InputLibraries(p))) :
        Supported(Pairs(InputLibraries(p))[i]) /\ Ambiguous(Pairs(InputLibraries(p))[i])

\* C4: a deploy whose list holds, at any position, a jar or whl with an
\* ambiguous file URI fails with the invalid-URI error, having hashed
\* nothing and called neither exists, put nor the control plane.
C4_AmbiguousFileUriFailsBeforeAnyWork ==
    \A p \in Procs :
        (InDeploy(p) /\ HasAmbiguous(p)) =>
            /\ inst[p].pc = "done"
            /\ inst[p].result = "RuntimeError"
            /\ Log(p) = <<>>

\* the ambiguous URI comes second, after a valid local file
C4_Witness ==
    \E p \in Procs :
        /\ InDeploy(p) /\ inst[p].result = "RuntimeError"
        /\ LET pairs == Pairs(InputLibraries(p))
           IN /\ Len(pairs) >= 2
              /\ IsLocal(pairs[1]) /\ ~Ambiguous(pairs[1])
              /\ Supported(pairs[2]) /\ Ambiguous(pairs[2])

Unsupported(pair) == ~Supported(pair)
UnsupportedObject(lib_object) == lib_object.lib_type \notin {"jar", "whl"}

\* C5: a pair whose type is neither jar nor whl never causes the invalid-URI
\* error, is classified external with its path unchanged, is not among the
\* local libraries, and no file is hashed and no remote path checked or put
\* on its account.
C5_UnsupportedTypeIsExternal ==
    \A p \in Procs :
        InDeploy(p) =>
            LET pairs == Pairs(InputLibraries(p))
                unsup == SelectSeq(pairs, Unsupported)
                locals == { i \in 1..Len(pairs) : IsLocal(pairs[i]) }
            IN /\ inst[p].result = "RuntimeError" => HasAmbiguous(p)
               /\ inst[p].result # "RuntimeError" =>
                    /\ SelectSeq(inst[p].external_lib_objects, UnsupportedObject)
                         = [k \in 1..Len(unsup) |-> LibraryObject(unsup[k].key, unsup[k].value)]
                    /\ \A k \in 1..Len(inst[p].local_lib_objects) :
                          ~UnsupportedObject(inst[p].local_lib_objects[k])
                    /\ \A i \in At(p, "hash") :
                          \E l \in locals : Log(p)[i].path = LocalFile(pairs[l])
                    /\ \A i \in At(p, "exists") \cup At(p, "put") :
                          \E l \in locals : Log(p)[i].path = RemoteOf(pairs[l])
                    /\ Cardinality(At(p, "hash")) <= Cardinality(locals)
                    /\ Cardinality(At(p, "exists")) <= Cardinality(locals)

\* a deploy that went through with an egg given by an ambiguous file URI and
\* an egg given by a plain path
C5_Witness ==
    \E p \in Procs :
        /\ InDeploy(p) /\ inst[p].pc = "done" /\ inst[p].result = "ok"
        /\ LET pairs == Pairs(InputLibraries(p))
           IN \E i, j \in 1..Len(pairs) :
                /\ Unsupported(pairs[i]) /\ Ambiguous(pairs[i])
                /\ Unsupported(pairs[j]) /\ NoScheme(pairs[j])

Resolved(p) == At(p, "get_profile_from_context") # {}

PayloadOf(config) ==
    IF config.is_valid_with_token THEN [token |-> config.token]
    ELSE [user |-> config.username, password |-> config.password]

C7_InvalidConfigurationFails ==
    \A p \in Procs :
        Resolved(p) =>
            /\ (inst[p].config = NoneConfig \/ ~inst[p].config.is_valid) =>
                  /\ inst[p].pc = "done"
                  /\ inst[p].result = "InvalidConfigurationError"
                  /\ inst[p].names = (IF inst[p].profile = None THEN "default"
                                      ELSE inst[p].profile)
                  /\ At(p, "perform_query") = {}
            /\ At(p, "get_config") # {} => inst[p].profile = None
            /\ At(p, "ProfileConfigProvider.get_config") # {} => inst[p].profile # None
            /\ Cardinality(At(p, "get_config") \cup At(p, "ProfileConfigProvider.get_config")) = 1

\* a deploy stopped by a default configuration marked invalid
C7_Witness ==
    \E p \in Procs :
        /\ InDeploy(p)
        /\ inst[p].result = "InvalidConfigurationError"
        /\ inst[p].names = "default"
        /\ inst[p].config # NoneConfig

IsExists(call) == call.op = "exists"
IsExistsFalse(call) == call.op = "exists" /\ ~call.ok
IsPut(call) == call.op = "put"

\* C8: the exists checks follow the input order of the local pairs and the
\* puts follow the order of the pairs found missing; a put that fails is the
\* last collaborator call of the deploy, which ends with the upload error
\* (no later put, no request), and every put that succeeded is in the store.
C8_SequentialPutsNoRollback ==
    \A p \in Procs :
        (InDeploy(p) /\ At(p, "put") # {}) =>
            LET loc == SelectSeq(Pairs(InputLibraries(p)), IsLocal)
                checks == SelectSeq(Log(p), IsExists)
                missing == SelectSeq(Log(p), IsExistsFalse)
                puts == SelectSeq(Log(p), IsPut)
            IN /\ Len(checks) = Len(loc)
               /\ \A k \in 1..Len(checks) : checks[k].path = RemoteOf(loc[k])
               /\ Len(puts) <= Len(missing)
               /\ \A k \in 1..Len(puts) : puts[k].path = missing[k].path
               /\ \A j \in At(p, "put") :
                     IF Log(p)[j].ok
                     THEN <<Log(p)[j].path, fs[Log(p)[j].local]>> \in dbfs
                     ELSE /\ j = Len(Log(p))
                          /\ inst[p].pc = "done"
                          /\ inst[p].result = "UploadError"

\* the second put of a deploy failed after the first had succeeded
C8_Witness ==
    \E p \in Procs :
        /\ inst[p].result = "UploadError"
        /\ \E i, j \in At(p, "put") : i < j /\ Log(p)[i].ok /\ ~Log(p)[j].ok
        /\ \E i \in At(p, "put") : <<Log(p)[i].path, fs[Log(p)[i].local]>> \in dbfs

\* C9: the body of the PUT sent by deploy has the keys of the input
\* specification plus libraries and credentials, agrees with the input on
\* every other key, carries an empty libraries list when the input has no
\* libraries key, and carries the resolved credentials in place of any the
\* input had.
C9_OtherKeysPassThrough ==
    \A p \in Procs : \A i \in At(p, "perform_query") :
        InDeploy(p) =>
            LET data == Log(p)[i].data
                input == inst[p].spec_in
            IN /\ Log(p)[i].method = "PUT"
               /\ Log(p)[i].path = <<"/", "pipelines", "/", input["id"]>>
               /\ DOMAIN data = (DOMAIN input) \cup {"libraries", "credentials"}
               /\ \A k \in (DOMAIN input) \ {"libraries", "credentials"} : data[k] = input[k]
               /\ "libraries" \notin DOMAIN input => data["libraries"] = <<>>
               /\ data["credentials"] = inst[p].credentials
               /\ data["credentials"] # StaleCredentials

\* a PUT sent for a specification that already carried credentials
C9_Witness ==
    \E p \in Procs :
        /\ InDeploy(p) /\ At(p, "perform_query") # {}
        /\ "credentials" \in DOMAIN inst[p].spec_in
        /\ "name" \in DOMAIN inst[p].spec_in

\* C10: encoding the decoded libraries list gives one single-key mapping per
\* (type, path) pair of the list, in the order of the pairs, repeated pairs
\* kept.
C10_EncodeDecodeKeepsPairs ==
    \A p \in Procs :
        InDeploy(p) =>
            LET pairs == Pairs(InputLibraries(p))
                out == to_json(from_json(InputLibraries(p)))
            IN /\ Len(out) = Len(pairs)
               /\ \A k \in 1..Len(pairs) : out[k] = << pairs[k] >>

\* a list with a two-key mapping and a repeated pair
C10_Witness ==
    \E p \in Procs :
        /\ InDeploy(p)
        /\ \E m \in 1..Len(InputLibraries(p)) : Len(InputLibraries(p)[m]) > 1
        /\ LET pairs == Pairs(InputLibraries(p))
           IN \E i, j \in 1..Len(pairs) : i < j /\ pairs[i] = pairs[j]

\* the store a deploy leaves when it started on an empty one
StoreAfter(p) ==
    { <<Log(p)[j].path, fs[Log(p)[j].local]>> : j \in { k \in At(p, "put") : Log(p)[k].ok } }
SentLibraries(p) == { Log(p)[i].data["libraries"] : i \in At(p, "perform_query") }

\* the instance whose deploy is repeated, and the ones repeating it
FirstCaller == SerialCaller
Repeaters == Procs \ {FirstCaller}

\* C11: when a deploy has succeeded and the same original specification is
\* deployed again with the local files unchanged, the second call invokes no
\* put (every exists check answers yes), the store stays as the first call
\* left it, and the libraries it sends are those the first call sent.
C11_RepeatedDeployUploadsNothing ==
    \A q \in Repeaters :
        (/\ InDeploy(FirstCaller) /\ inst[FirstCaller].result = "ok"
         /\ InDeploy(q) /\ inst[q].spec_in = inst[FirstCaller].spec_in) =>
            /\ At(q, "put") = {}
            /\ dbfs = StoreAfter(FirstCaller)
            /\ \A i \in At(q, "exists") : Log(q)[i].ok
            /\ SentLibraries(q) \subseteq SentLibraries(FirstCaller)

\* the repetition of a deploy that had uploaded a file went through
C11_Witness ==
    \E q \in Repeaters :
        /\ InDeploy(FirstCaller) /\ inst[FirstCaller].result = "ok"
        /\ \E j \in At(FirstCaller, "put") : Log(FirstCaller)[j].ok
        /\ InDeploy(q) /\ inst[q].pc = "done" /\ inst[q].result = "ok"
        /\ inst[q].spec_in = inst[FirstCaller].spec_in
        /\ At(q, "exists") # {}
        /\ SentLibraries(q) = SentLibraries(FirstCaller)

\* the operations of each stage of a call, as they appear in its log
CredentialOps == {"get_profile_from_context", "get_config", "ProfileConfigProvider.get_config"}
UploadOps == {"exists", "put"}
OpsIn(p, ops) == { i \in 1..Len(Log(p)) : Log(p)[i].op \in ops }
Requests(p) == At(p, "perform_query")
LastCall(p) == Log(p)[Len(Log(p))]
\* the errors of the stages that come before the request
StageErrors == {"RuntimeError", "IOError", "UploadError", "InvalidConfigurationError", "KeyError"}

\* C12: a deploy or delete call sends at most one control-plane request and
\* never retries: exactly one when every stage succeeded (and one, failed,
\* when the request itself failed), none when classification, hashing,
\* exists/put or credential resolution failed; the failing stage's operation
\* is the last thing the call did.
C12_AtMostOneRequestNoRetry ==
    \A p \in Procs :
        LET n == Cardinality(Requests(p))
            r == inst[p].result
        IN /\ n <= 1
           /\ \A i \in Requests(p) : i = Len(Log(p))
           /\ r = "ok" => n = 1 /\ LastCall(p).ok
           /\ r = "RequestError" => n = 1 /\ ~LastCall(p).ok
           /\ r \in StageErrors => n = 0
           /\ r = "RuntimeError" => Log(p) = <<>>
           /\ r = "IOError" =>
                /\ LastCall(p).op = "hash" /\ ~LastCall(p).ok
                /\ OpsIn(p, UploadOps \cup CredentialOps) = {}
           /\ r = "UploadError" =>
                /\ LastCall(p).op = "put" /\ ~LastCall(p).ok
                /\ OpsIn(p, CredentialOps) = {}
           /\ r = "InvalidConfigurationError" => LastCall(p).op \in CredentialOps

\* a deploy uploaded a file, sent its request, the request failed, and the
\* call ended there
C12_Witness ==
    \E p \in Procs :
        /\ InDeploy(p) /\ inst[p].pc = "done" /\ inst[p].result = "RequestError"
        /\ \E j \in At(p, "put") : Log(p)[j].ok
        /\ Cardinality(Requests(p)) = 1

\* the path component of a file URI with an empty authority, read off its
\* text: what follows "file:", less the two slashes that open the authority
UriPathOf(pair) ==
    LET rest == Drop(pair.value, 2)
    IN IF Len(rest) >= 2 /\ rest[1] = "/" /\ rest[2] = "/" THEN Drop(rest, 2) ELSE rest
\* what the rule table makes of a jar or whl pair
ClassifiedLocal(pair) ==
    [lib_type |-> pair.key, path |-> IF NoScheme(pair) THEN pair.value ELSE UriPathOf(pair)]
Unchanged(pair) == [lib_type |-> pair.key, path |-> pair.value]

SharedPath == <<"dbfs", ":", "/", "pipelines", "/", "code", "/", "abc123", ".", "jar">>
PutSome(p) == \E j \in At(p, "put") : Log(p)[j].ok

LocalPairs(p) == SelectSeq(Pairs(InputLibraries(p)), IsLocal)
Unreadable(pair) == fs[ClassifiedLocal(pair).path] = "missing"
HasUnreadable(p) == \E k \in 1..Len(LocalPairs(p)) : Unreadable(LocalPairs(p)[k])

\* C15: every local file of a batch is hashed before the first exists or
\* put of the batch; when one of them cannot be read the deploy fails with
\* the file-read error, no exists and no put has been invoked for any pair
\* of the batch (the readable ones ahead of it included), the store is as
\* it was and no control-plane request is sent.
C15_AllHashedBeforeExistsOrPut ==
    \A p \in Procs :
        (InDeploy(p) /\ ~HasAmbiguous(p)) =>
            /\ \A i \in At(p, "hash"), j \in OpsIn(p, UploadOps) : i < j
            /\ OpsIn(p, UploadOps) # {} =>
                  /\ Cardinality(At(p, "hash")) = Len(LocalPairs(p))
                  /\ \A i \in At(p, "hash") : Log(p)[i].ok
            /\ HasUnreadable(p) =>
                  /\ OpsIn(p, UploadOps \cup {"perform_query"} \cup CredentialOps) = {}
                  /\ inst[p].result \in {"none", "IOError"}
                  /\ inst[p].pc = "done" => inst[p].result = "IOError"
                  /\ \A e \in uploaded : e.local \in DOMAIN fs /\ fs[e.local] # "missing"
            /\ inst[p].result = "IOError" => HasUnreadable(p)

\* the unreadable file came second: the first was hashed, and nothing was
\* asked of the store for it
C15_Witness ==
    \E p \in Procs :
        /\ InDeploy(p) /\ inst[p].pc = "done" /\ inst[p].result = "IOError"
        /\ Len(LocalPairs(p)) = 2
        /\ ~Unreadable(LocalPairs(p)[1]) /\ Unreadable(LocalPairs(p)[2])
        /\ \E i \in At(p, "hash") : Log(p)[i].ok
        /\ OpsIn(p, UploadOps) = {}
        /\ dbfs = {}

\* the libraries list deploy builds: the external pairs as they were, then
\* the local ones at their content-addressed paths
RewrittenLibraries(p) ==
    LET pairs == Pairs(InputLibraries(p))
        ext == SelectSeq(pairs, IsExternal)
        loc == SelectSeq(pairs, IsLocal)
    IN [k \in 1..Len(ext) |-> << ext[k] >>]
          \o [k \in 1..Len(loc) |-> << Item(loc[k].key, RemoteOf(loc[k])) >>]

\* C16: deploy resolves the credentials only after the upload stage: its
\* credential calls follow every hash, exists and put of the call, and a
\* deploy that fails on an invalid configuration has by then made an exists
\* check for every local library and a put for every missing one, those
\* uploads are in the store, and the caller's specification has its
\* libraries key rewritten and its credentials key as it was on entry.
C16_CredentialsAfterUploads ==
    \A p \in Procs :
        InDeploy(p) =>
            /\ \A c \in OpsIn(p, CredentialOps), u \in OpsIn(p, UploadOps \cup {"hash"}) : u < c
            /\ inst[p].result = "InvalidConfigurationError" =>
                  /\ Cardinality(At(p, "exists")) = Len(LocalPairs(p))
                  /\ \A i \in At(p, "exists") :
                        ~Log(p)[i].ok =>
                            \E j \in At(p, "put") :
                                j > i /\ Log(p)[j].path = Log(p)[i].path /\ Log(p)[j].ok
                  /\ \A j \in At(p, "put") : <<Log(p)[j].path, fs[Log(p)[j].local]>> \in dbfs
                  /\ "libraries" \in DOMAIN inst[p].spec
                  /\ inst[p].spec["libraries"] = RewrittenLibraries(p)
                  /\ ("credentials" \in DOMAIN inst[p].spec) = ("credentials" \in DOMAIN inst[p].spec_in)
                  /\ "credentials" \in DOMAIN inst[p].spec =>
                        inst[p].spec["credentials"] = inst[p].spec_in["credentials"]
                  /\ Requests(p) = {}

\* a deploy of a specification that carried credentials uploaded its file
\* and then failed on the configuration
C16_Witness ==
    \E p \in Procs :
        /\ InDeploy(p) /\ inst[p].pc = "done" /\ inst[p].result = "InvalidConfigurationError"
        /\ PutSome(p)
        /\ dbfs # {}
        /\ "credentials" \in DOMAIN inst[p].spec_in
        /\ inst[p].spec["libraries"] # inst[p].spec_in["libraries"]

NoId(p) == "id" \notin DOMAIN inst[p].spec_in

\* C17: deploy does not look for the id before doing its work: for a
\* specification without an id the classification, the hashing, the exists
\* checks, the puts and the credential resolution run as for any other, the
\* call then fails building the request (and only such a call fails that
\* way), and no control-plane request is sent.
C17_MissingIdFailsAtRequest ==
    \A p \in Procs :
        InDeploy(p) =>
            /\ inst[p].result = "KeyError" <=>
                  (NoId(p) /\ inst[p].pc = "done" /\ inst[p].credentials # NoneConfig)
            /\ NoId(p) =>
                  /\ Requests(p) = {}
                  /\ inst[p].result \notin {"ok", "RequestError"}
            /\ inst[p].result = "KeyError" =>
                  /\ ~HasAmbiguous(p) /\ ~HasUnreadable(p)
                  /\ Cardinality(At(p, "hash")) = Len(LocalPairs(p))
                  /\ Cardinality(At(p, "exists")) = Len(LocalPairs(p))
                  /\ \A i \in At(p, "exists") :
                        ~Log(p)[i].ok =>
                            \E j \in At(p, "put") :
                                j > i /\ Log(p)[j].path = Log(p)[i].path /\ Log(p)[j].ok
                  /\ LastCall(p).op \in CredentialOps
                  /\ inst[p].spec["libraries"] = RewrittenLibraries(p)
                  /\ inst[p].spec["credentials"] = PayloadOf(inst[p].config)

\* a deploy without an id uploaded a file, resolved the credentials and
\* failed building the request
C17_Witness ==
    \E p \in Procs :
        /\ InDeploy(p) /\ NoId(p)
        /\ inst[p].pc = "done" /\ inst[p].result = "KeyError"
        /\ PutSome(p)
        /\ OpsIn(p, CredentialOps) # {}
        /\ Requests(p) = {}

====
